---- MODULE Spec2Model ----
(***************************************************************************)
(* The POST /api/upload handler of src/server.js: multipart decoding with  *)
(* blob uploads, duplicate check, file-mode reconciliation, persistence,   *)
(* orphan blob cleanup and storefront synchronisation.                     *)
(*                                                                         *)
(* The descriptive fields of a product (name, productImage, status,        *)
(* totalVariants) and of a variant (sku, title, image) are copied from the *)
(* request to the record without being read by any decision of the        *)
(* handler; they are left out of the records below.                        *)
(***************************************************************************)
EXTENDS Integers, Sequences, FiniteSets, TLC

VARIABLES
  db,      \* the DigitalProduct collection: a set of product records
  blobs,   \* the blob store: key -> number of the request that wrote it, 0 if absent
  nreq,    \* number of requests received so far
  h,       \* per request slot: the locals of the handler and what it has issued
  shop     \* the storefront: the tags of the product

vars == <<db, blobs, nreq, h, shop>>

-----------------------------------------------------------------------------
(* Bounds *)

MaxRequests == 2   \* requests received in one behaviour
MaxProducts == 2   \* records the collection can hold
MaxFiles    == 1   \* file parts in one multipart body
MaxIdRequests == 3 \* requests received in one behaviour of SpecIds
MaxDownloadRequests == 2 \* requests received in one behaviour of SpecDownloads
MaxDownload == 1   \* largest download count a request submits
MaxFileRequests == 1 \* requests received in one behaviour of SpecFiles
MaxParts == 2      \* file parts in one multipart body of SpecFiles
MaxRaceRequests == 3 \* requests received in one behaviour of SpecRace
MaxTagCalls == 3   \* calls of updateProductTagsInShopify in one behaviour of SpecTags

Slots == {1}

\* the handler invocations that run at the same time in SpecRace
RaceSlots == {1, 2}

-----------------------------------------------------------------------------
(* Values *)

ProductIds == {"gid/1", "gid/2"}
VariantIds == {"v1", "v2"}
VariantOrder == <<"v1", "v2">>
FileNames  == {"a", "b"}

\* productData.productId.split("/").pop()
NumericId(productId) ==
  CASE productId = "gid/1" -> "1"
    [] productId = "gid/2" -> "2"
    [] OTHER -> "unknown"

\* the key uploadFileStreamToS3 builds; the year/month part is fixed within a run
KeyOf(productId, name) ==
  "private/" \o NumericId(productId) \o "/" \o name

\* uploadResult.Location
UrlOf(key) == "https://" \o key

\* file.size of the file part with this name
SizeOf(name) == IF name = "a" THEN 1 ELSE 2

AllKeys == {KeyOf(p, n) : p \in ProductIds, n \in FileNames}

FieldOfVariant(vid) == "variantFiles[" \o vid \o "]"

\* fieldName.match(/\[(.+)\]/)?.[1] || null
VariantOfField(field) ==
  IF \E v \in VariantIds : field = FieldOfVariant(v)
    THEN CHOOSE v \in VariantIds : field = FieldOfVariant(v)
    ELSE ""

FileFields == {"file"} \cup {FieldOfVariant(v) : v \in VariantIds}

NoFile == [fileKey |-> "", fileUrl |-> "", fileName |-> "", fileSize |-> 0]

FileOf(key, name) ==
  [fileKey |-> key, fileUrl |-> UrlOf(key), fileName |-> name, fileSize |-> SizeOf(name)]

\* a submitted descriptor that names a key and a url and leaves name and size out
PartialFile(key) ==
  [fileKey |-> key, fileUrl |-> UrlOf(key), fileName |-> "", fileSize |-> 0]

MkVariant(id, f, download) ==
  [id |-> id, fileKey |-> f.fileKey, fileUrl |-> f.fileUrl,
   fileName |-> f.fileName, fileSize |-> f.fileSize, download |-> download]

FileDesc(v) ==
  [fileKey |-> v.fileKey, fileUrl |-> v.fileUrl, fileName |-> v.fileName,
   fileSize |-> v.fileSize]

\* null for a product (existingProduct before the load, a missing record)
NullProduct == [_id |-> 0, productId |-> "", fileType |-> "", variants |-> <<>>]

NullData ==
  [decode |-> "none", id |-> 0, productId |-> "", fileType |-> "", variants |-> <<>>]

\* the tags a storefront product can carry
Tags == {"Digital Product", "sale", "new"}

\* what updateProductTagsInShopify returns, with mutated telling whether the
\* productUpdate mutation was sent; tags is {} where none are returned
TagResult(status, mutated, tags, error) ==
  [status |-> status, mutated |-> mutated, tags |-> tags, error |-> error]

IdleHandler ==
  [pc |-> "idle", n |-> 0, productData |-> NullData, files |-> <<>>,
   existingProduct |-> NullProduct, productObject |-> NullProduct,
   saved |-> FALSE, deleteCalls |-> {}, shipCalls |-> <<>>, tagCalls |-> 0,
   tagLog |-> <<>>,
   status |-> 0, error |-> ""]

-----------------------------------------------------------------------------
(* Sequence helpers *)

\* the permutations of 1..n, as sequences
Perms(n) == {p \in [1..n -> 1..n] : \A i, j \in 1..n : p[i] = p[j] => i = j}

-----------------------------------------------------------------------------
(* Blob store adapter *)

\* uploadFileStreamToS3: the result pushed for one file part, <<>> for null.
\* decode is what JSON.parse makes of the productData field; s3ok is the
\* outcome of s3.upload. The result carries the field name it is filed under.
UploadFileStreamToS3(fieldName, name, decode, productId, s3ok) ==
  IF decode # "ok" THEN <<>>
  ELSE IF fieldName \notin FileFields THEN <<>>
  ELSE IF ~s3ok THEN <<>>
  ELSE << [field |-> fieldName,
           key |-> KeyOf(productId, name),
           url |-> UrlOf(KeyOf(productId, name)),
           name |-> name,
           size |-> SizeOf(name),
           type |-> IF fieldName = "file" THEN "common" ELSE "variant",
           variantId |-> VariantOfField(fieldName)] >>

\* the results of the fan-out in completion order: order[i] is the part whose
\* upload settles i-th
RECURSIVE Completed(_, _, _, _, _)
Completed(rawFiles, decode, productId, s3ok, order) ==
  IF order = <<>> THEN <<>>
  ELSE UploadFileStreamToS3(rawFiles[Head(order)].field, rawFiles[Head(order)].name,
                            decode, productId, s3ok[Head(order)])
       \o Completed(rawFiles, decode, productId, s3ok, Tail(order))

\* the filesObj parseFormData can return for a body: one per outcome of the
\* uploads and per order in which they settle
FilesObjs(rawFiles, decode, productId) ==
  {Completed(rawFiles, decode, productId, s3ok, order) :
     s3ok \in [DOMAIN rawFiles -> BOOLEAN], order \in Perms(Len(rawFiles))}

\* filesObj[field]
FilesOf(files, field) == SelectSeq(files, LAMBDA u : u.field = field)

\* the blob store after the uploads of request number n
BlobsAfterUpload(b, files, n) ==
  [k \in AllKeys |-> IF \E i \in DOMAIN files : files[i].key = k THEN n ELSE b[k]]

\* deleteOldFileFromDO for each key of done: the deletes that succeeded
BlobsAfterDelete(b, done) ==
  [k \in AllKeys |-> IF k \in done THEN 0 ELSE b[k]]

-----------------------------------------------------------------------------
(* Product repository *)

\* the query without its _id condition
FindDuplicateAnyId(store, productId, id) ==
  {p \in store : p.productId = productId}

\* DigitalProduct.findOne({productId, _id: {$ne: id}})
FindDuplicate(store, productId, id) ==
  {p \in store : p.productId = productId /\ p._id # id}

\* DigitalProduct.findById(id)
FindById(store, id) ==
  IF \E p \in store : p._id = id
    THEN CHOOSE p \in store : p._id = id
    ELSE NullProduct

\* the identifier the store assigns on create
NewId(store) ==
  CHOOSE i \in 1..(Cardinality(store) + 1) : \A p \in store : p._id # i

\* saveDigitalProduct: create without an id, findByIdAndUpdate with one
SaveDigitalProduct(store, existingId, data) ==
  IF existingId = 0
    THEN store \cup {[data EXCEPT !._id = NewId(store)]}
    ELSE {p \in store : p._id # existingId} \cup {[data EXCEPT !._id = existingId]}

-----------------------------------------------------------------------------
(* File-mode reconciliation *)

\* commonFile: files.file, <<>> for null
CommonFile(files) == FilesOf(files, "file")

\* variantFileMap, as the uploads filed under variantFiles[id]
VariantFiles(files, id) == FilesOf(files, FieldOfVariant(id))

HasNewVariants(files) == \E v \in VariantIds : VariantFiles(files, v) # <<>>

NewMode(productData) ==
  IF productData.fileType = "commonFile" THEN "common" ELSE "variant"

\* oldMode, read from the stored record; "none" for null
OldMode(existingProduct) ==
  IF existingProduct._id = 0 THEN "none"
  ELSE IF existingProduct.fileType = "commonFile" THEN "common" ELSE "variant"

\* oldMode as handleModeAndUploadDeletes infers it from the stored keys; "none"
\* for null and for a product without variants
OldModeByKeys(existingProduct) ==
  IF existingProduct._id = 0 \/ existingProduct.variants = <<>> THEN "none"
  ELSE IF /\ \A i \in DOMAIN existingProduct.variants :
               existingProduct.variants[i].fileKey
                 = existingProduct.variants[1].fileKey
          /\ existingProduct.variants[1].fileKey # ""
         THEN "common"
  ELSE "variant"

\* the loop without its break: the last variant that has a fileKey is chosen
RECURSIVE ChosenVariantLast(_)
ChosenVariantLast(variants) ==
  IF variants = <<>> THEN <<>>
  ELSE IF ChosenVariantLast(Tail(variants)) # <<>>
    THEN ChosenVariantLast(Tail(variants))
  ELSE IF Head(variants).fileKey # "" THEN <<Head(variants)>>
  ELSE <<>>

\* the first variant of the list that has a fileKey, <<>> if none has
RECURSIVE ChosenVariant(_)
ChosenVariant(variants) ==
  IF variants = <<>> THEN <<>>
  ELSE IF Head(variants).fileKey # "" THEN <<Head(variants)>>
  ELSE ChosenVariant(Tail(variants))

\* migratedCommonKey/Url/Name/Size: NoFile when nothing is migrated
MigratedCommon(existingProduct, newMode, files) ==
  LET oldMode == OldMode(existingProduct)
      hasNewFiles == IF newMode = "common" THEN CommonFile(files) # <<>>
                     ELSE HasNewVariants(files)
  IN IF existingProduct._id # 0 /\ oldMode # newMode /\ ~hasNewFiles
          /\ newMode = "common" /\ oldMode = "variant"
          /\ ChosenVariant(existingProduct.variants) # <<>>
       THEN FileDesc(ChosenVariant(existingProduct.variants)[1])
       ELSE NoFile

\* existingProduct.variants.find(ev => ev.id === id), <<>> for undefined
RECURSIVE FindVariant(_, _)
FindVariant(variants, id) ==
  IF variants = <<>> THEN <<>>
  ELSE IF Head(variants).id = id THEN <<Head(variants)>>
  ELSE FindVariant(Tail(variants), id)

\* existingProduct.variants[0], <<>> for undefined
FirstVariant(variants) == IF variants = <<>> THEN <<>> ELSE <<Head(variants)>>

\* b || a: the operands of the fallback chain swapped
OrElseSwapped(first, second) ==
  LET s == IF second = <<>> THEN NoFile ELSE FileDesc(second[1])
  IN [fileKey  |-> IF s.fileKey # "" THEN s.fileKey ELSE first.fileKey,
      fileUrl  |-> IF s.fileUrl # "" THEN s.fileUrl ELSE first.fileUrl,
      fileName |-> IF s.fileName # "" THEN s.fileName ELSE first.fileName,
      fileSize |-> IF s.fileSize # 0 THEN s.fileSize ELSE first.fileSize]

\* a || b || default, field by field, over a submitted and an optional old variant
OrElse(first, second) ==
  LET s == IF second = <<>> THEN NoFile ELSE FileDesc(second[1])
  IN [fileKey  |-> IF first.fileKey # "" THEN first.fileKey ELSE s.fileKey,
      fileUrl  |-> IF first.fileUrl # "" THEN first.fileUrl ELSE s.fileUrl,
      fileName |-> IF first.fileName # "" THEN first.fileName ELSE s.fileName,
      fileSize |-> IF first.fileSize # 0 THEN first.fileSize ELSE s.fileSize]

UploadDesc(u) ==
  [fileKey |-> u.key, fileUrl |-> u.url, fileName |-> u.name, fileSize |-> u.size]

\* the loop giving a new common upload only to the variants that submit no
\* fileKey of their own
ResolveFileKeepSubmitted(v, productData, files, existingProduct) ==
  LET newMode == NewMode(productData)
      oldMode == OldMode(existingProduct)
      commonFile == CommonFile(files)
      migrated == MigratedCommon(existingProduct, newMode, files)
      old == existingProduct.variants
  IN IF productData.fileType = "commonFile"
       THEN IF commonFile # <<>> /\ v.fileKey = "" THEN UploadDesc(commonFile[1])
            ELSE IF migrated.fileKey # "" THEN migrated
            ELSE OrElse(FileDesc(v),
                        IF FindVariant(old, v.id) # <<>> THEN FindVariant(old, v.id)
                        ELSE FirstVariant(old))
       ELSE IF VariantFiles(files, v.id) # <<>>
              THEN UploadDesc(VariantFiles(files, v.id)[1])
            ELSE IF existingProduct._id # 0 /\ oldMode = "common" /\ oldMode # newMode
              THEN OrElse(IF FirstVariant(old) = <<>> THEN NoFile
                          ELSE FileDesc(FirstVariant(old)[1]),
                          <<v>>)
            ELSE OrElse(FileDesc(v), FindVariant(old, v.id))

\* the file of one submitted variant v: the body of the per-variant loop
ResolveFile(v, productData, files, existingProduct) ==
  LET newMode == NewMode(productData)
      oldMode == OldMode(existingProduct)
      commonFile == CommonFile(files)
      migrated == MigratedCommon(existingProduct, newMode, files)
      old == existingProduct.variants
  IN IF productData.fileType = "commonFile"
       THEN IF commonFile # <<>> THEN UploadDesc(commonFile[1])
            ELSE IF migrated.fileKey # "" THEN migrated
            ELSE OrElse(FileDesc(v),
                        IF FindVariant(old, v.id) # <<>> THEN FindVariant(old, v.id)
                        ELSE FirstVariant(old))
       ELSE IF VariantFiles(files, v.id) # <<>>
              THEN UploadDesc(VariantFiles(files, v.id)[1])
            ELSE IF existingProduct._id # 0 /\ oldMode = "common" /\ oldMode # newMode
              THEN OrElse(IF FirstVariant(old) = <<>> THEN NoFile
                          ELSE FileDesc(FirstVariant(old)[1]),
                          <<v>>)
            ELSE OrElse(FileDesc(v), FindVariant(old, v.id))

\* variantObject
VariantObject(v, productData, files, existingProduct) ==
  MkVariant(v.id, ResolveFile(v, productData, files, existingProduct), v.download)

\* productObject after the loop
ProductObject(productData, files, existingProduct) ==
  [_id |-> 0,
   productId |-> productData.productId,
   fileType |-> IF productData.fileType = "commonFile" THEN "common" ELSE "variant",
   variants |-> [i \in DOMAIN productData.variants |->
                   VariantObject(productData.variants[i], productData, files,
                                 existingProduct)]]

FileKeys(variants) == {variants[i].fileKey : i \in DOMAIN variants} \ {""}

\* toDelete without the filter on the new keys: every old key is deleted
ToDeleteEveryOldKey(existingProduct, productObject) ==
  FileKeys(existingProduct.variants)

\* toDelete
ToDelete(existingProduct, productObject) ==
  {key \in FileKeys(existingProduct.variants) :
     key \notin FileKeys(productObject.variants)}

\* removedVariants without the filter: every previous variant
RemovedVariantsUnfiltered(existingProduct, productObject) ==
  existingProduct.variants

\* removedVariants
RemovedVariants(existingProduct, productObject) ==
  SelectSeq(existingProduct.variants,
            LAMBDA ev : \A i \in DOMAIN productObject.variants :
                          productObject.variants[i].id # ev.id)

\* the updateVariantShippingInShopify calls of the integration block, in order
ShippingCalls(existingProduct, productData, productObject) ==
  (IF existingProduct._id # 0 /\ productData.id # 0
     THEN [i \in DOMAIN RemovedVariants(existingProduct, productObject) |->
             [variantId |-> RemovedVariants(existingProduct, productObject)[i].id,
              requiresShipping |-> TRUE]]
     ELSE <<>>)
  \o [i \in DOMAIN productData.variants |->
        [variantId |-> productData.variants[i].id, requiresShipping |-> FALSE]]


-----------------------------------------------------------------------------
(* Storefront *)

\* what the storefront does with the two requests of a tag update
TagOutcomes == {"readFails", "notFound", "writeFails", "ok"}

\* the productUpdate mutation sent whatever the current tags are
UpdateProductTagsAlwaysWrite(currentTags, newTags, outcome) ==
  LET updatedTags == currentTags \cup newTags
      Call(after, result) ==
        [args |-> newTags, before |-> currentTags, after |-> after,
         result |-> result]
  IN IF newTags = {}
       THEN Call(currentTags, TagResult(FALSE, FALSE, {}, "No tags to update"))
     ELSE IF outcome = "readFails"
       THEN Call(currentTags, TagResult(FALSE, FALSE, {}, "read failed"))
     ELSE IF outcome = "notFound"
       THEN Call(currentTags, TagResult(FALSE, FALSE, {}, "Product not found"))
     ELSE IF outcome = "writeFails"
       THEN Call(currentTags, TagResult(FALSE, TRUE, {}, "write failed"))
     ELSE Call(updatedTags, TagResult(TRUE, TRUE, updatedTags, ""))

\* updateProductTagsInShopify over the current tags of the product: the call
\* as the caller logs it, with the tags of the product before and after
UpdateProductTagsInShopify(currentTags, newTags, outcome) ==
  LET updatedTags == currentTags \cup newTags
      Call(after, result) ==
        [args |-> newTags, before |-> currentTags, after |-> after,
         result |-> result]
  IN IF newTags = {}
       THEN Call(currentTags, TagResult(FALSE, FALSE, {}, "No tags to update"))
     ELSE IF outcome = "readFails"
       THEN Call(currentTags, TagResult(FALSE, FALSE, {}, "read failed"))
     ELSE IF outcome = "notFound"
       THEN Call(currentTags, TagResult(FALSE, FALSE, {}, "Product not found"))
     ELSE IF updatedTags = currentTags
       THEN Call(currentTags, TagResult(TRUE, FALSE, updatedTags, ""))
     ELSE IF outcome = "writeFails"
       THEN Call(currentTags, TagResult(FALSE, TRUE, {}, "write failed"))
     ELSE Call(updatedTags, TagResult(TRUE, TRUE, updatedTags, ""))

-----------------------------------------------------------------------------
(* Requests *)

\* the variant ids of idSet in the order of VariantOrder
RECURSIVE Ordered(_, _)
Ordered(idSet, order) ==
  IF order = <<>> THEN <<>>
  ELSE (IF Head(order) \in idSet THEN <<Head(order)>> ELSE <<>>)
       \o Ordered(idSet, Tail(order))

\* lists of distinct variant ids over idSet
IdLists(idSet) == {Ordered(ids, VariantOrder) : ids \in SUBSET idSet}

VariantLists(idSet, fileSet, downloads) ==
  UNION {{[i \in DOMAIN ids |-> MkVariant(ids[i], f[i], d[i])] :
            f \in [DOMAIN ids -> fileSet], d \in [DOMAIN ids -> downloads]} :
         ids \in IdLists(idSet)}

\* the file parts of a body: at most MaxFiles parts over the given fields
RawFileLists(fields, names) ==
  UNION {[1..n -> [field : fields, name : names]] : n \in 0..MaxFiles}

\* the place of a file name in the order the parts of a body are listed in
NameRank(name) == IF name = "a" THEN 1 ELSE 2

\* the file parts of a body, at most MaxParts, submitted in the order of their
\* names: the name of a part tells its place in the submission
RawFilesByName(fields, names) ==
  UNION {{fs \in [1..n -> [field : fields, name : names]] :
            \A i, j \in 1..n : i < j => NameRank(fs[i].name) < NameRank(fs[j].name)} :
         n \in 0..MaxParts}

\* a multipart body whose productData field parses
GoodRequests(ids, productIds, fileTypes, variantLists, rawFileLists) ==
  {[productData |-> [decode |-> "ok", id |-> id, productId |-> p, fileType |-> t,
                     variants |-> vs],
    rawFiles |-> fs] :
     id \in ids, p \in productIds, t \in fileTypes,
     vs \in variantLists, fs \in rawFileLists}

\* a malformed body, a body without productData, a productData that is no JSON
BadRequests(rawFileLists) ==
  {[productData |-> [NullData EXCEPT !.decode = d], rawFiles |-> fs] :
     d \in {"malformed", "missing", "invalid"}, fs \in rawFileLists}

\* what a submitted variant says of its file: nothing, the whole descriptor of
\* an uploaded file, or the key and url of another
SubmittedFiles ==
  {NoFile, FileOf(KeyOf("gid/1", "a"), "a"), PartialFile(KeyOf("gid/1", "b"))}

\* the requests of Spec: one external product, created and updated, over
\* every variant list; the file parts have one name, so an upload writes the
\* key private/1/a and a submitted variant names the key private/1/b
Requests ==
  GoodRequests(0..1, {"gid/1"}, {"commonFile", "variantFile"},
               VariantLists(VariantIds, SubmittedFiles, {0}),
               RawFileLists(FileFields, {"a"}))
    \cup BadRequests(RawFileLists(FileFields, {"a"}))

\* the requests of SpecIds: every external and internal id, in common mode,
\* over the lists of one variant and the common uploads of one file name
RequestsIds ==
  GoodRequests(0..MaxProducts, ProductIds, {"commonFile"},
               VariantLists({"v1"}, {NoFile, FileOf(KeyOf("gid/1", "a"), "a")}, {0}),
               RawFileLists({"file"}, {"a"}))
    \cup BadRequests(RawFileLists({"file"}, {"a"}))

\* the requests of SpecDownloads: one external product whose variants submit
\* no file and any download count
RequestsDownloads ==
  GoodRequests(0..1, {"gid/1"}, {"commonFile", "variantFile"},
               VariantLists(VariantIds, {NoFile}, 0..MaxDownload),
               RawFileLists({"file"}, {"a"}))
    \cup BadRequests(RawFileLists({"file"}, {"a"}))

\* the requests of SpecFiles: one external product whose variants submit no
\* file, with several file parts in one body
RequestsFiles ==
  GoodRequests(0..1, {"gid/1"}, {"commonFile", "variantFile"},
               VariantLists(VariantIds, {NoFile}, {0}),
               RawFilesByName(FileFields, FileNames))
    \cup BadRequests(RawFilesByName(FileFields, FileNames))

\* the requests of SpecRace: one external product with one variant in
\* per-variant mode, with or without an upload for it
RequestsRace ==
  GoodRequests(0..1, {"gid/1"}, {"variantFile"},
               VariantLists({"v1"}, {NoFile, PartialFile(KeyOf("gid/1", "b"))}, {0}),
               RawFileLists({FieldOfVariant("v1")}, {"a"}))
    \cup BadRequests(RawFileLists({FieldOfVariant("v1")}, {"a"}))

-----------------------------------------------------------------------------
(* The handler, one action per step; r is the request slot *)

\* res.status(code).json(...): error is the error of the body, "" on success
Respond(r, code, error) ==
  h' = [h EXCEPT ![r].pc = "done", ![r].status = code, ![r].error = error]

\* the request arrives; parseFormData runs, the uploads dispatched together
\* and settling in any order, each succeeding or failing on its own; then the
\* handler reads the productData field and parses it
ParseFormData(r, inputs, limit) ==
  /\ h[r].pc = "idle"
  /\ nreq < limit
  /\ \E rq \in inputs :
       /\ rq.productData.id = 0 => Cardinality(db) < MaxProducts
       /\ nreq' = nreq + 1
       /\ UNCHANGED <<db, shop>>
       /\ IF rq.productData.decode = "malformed"
            THEN /\ h' = [h EXCEPT ![r] = [IdleHandler EXCEPT
                            !.pc = "done", !.n = nreq + 1, !.status = 500,
                            !.error = "form parse error",
                            !.productData = rq.productData]]
                 /\ UNCHANGED blobs
            ELSE \E files \in FilesObjs(rq.rawFiles, rq.productData.decode,
                                         rq.productData.productId) :
                   LET parsed == [IdleHandler EXCEPT
                                    !.n = nreq + 1,
                                    !.productData = rq.productData,
                                    !.files = files]
                   IN /\ blobs' = BlobsAfterUpload(blobs, files, nreq + 1)
                      /\ h' = [h EXCEPT ![r] =
                           CASE rq.productData.decode = "missing" ->
                                  [parsed EXCEPT !.pc = "done", !.status = 400,
                                     !.error = "Missing productData field"]
                             [] rq.productData.decode = "invalid" ->
                                  [parsed EXCEPT !.pc = "done", !.status = 500,
                                     !.error = "Unexpected token in JSON"]
                             [] OTHER -> [parsed EXCEPT !.pc = "dupcheck"]]

\* DigitalProduct.findOne: the query fails, finds another record, or finds none
DuplicateCheck(r) ==
  /\ h[r].pc = "dupcheck"
  /\ UNCHANGED <<db, blobs, nreq, shop>>
  /\ \/ Respond(r, 500, "query failed")
     \/ /\ FindDuplicate(db, h[r].productData.productId, h[r].productData.id) # {}
        /\ Respond(r, 400, "Product already exists")
     \/ /\ FindDuplicate(db, h[r].productData.productId, h[r].productData.id) = {}
        /\ h' = [h EXCEPT ![r].pc = "reconcile"]

\* the load of existingProduct and the computation of productObject
Reconcile(r) ==
  /\ h[r].pc = "reconcile"
  /\ UNCHANGED <<db, blobs, nreq, shop>>
  /\ LET pd == h[r].productData
         found == IF pd.id # 0 THEN FindById(db, pd.id) ELSE NullProduct
     IN \/ /\ pd.id # 0
           /\ Respond(r, 500, "query failed")
        \/ /\ pd.id # 0
           /\ found._id = 0
           /\ Respond(r, 500, "Existing product not found")
        \/ /\ pd.id # 0 => found._id # 0
           /\ h' = [h EXCEPT ![r].pc = "save",
                             ![r].existingProduct = found,
                             ![r].productObject =
                                ProductObject(pd, h[r].files, found)]

\* a handler that removes the blobs of the request when the write throws
SaveRollingBack(r) ==
  /\ h[r].pc = "save"
  /\ UNCHANGED <<nreq, shop>>
  /\ \/ /\ Respond(r, 500, "write failed")
        /\ blobs' = BlobsAfterDelete(blobs, {h[r].files[i].key : i \in DOMAIN h[r].files})
        /\ UNCHANGED db
     \/ /\ db' = SaveDigitalProduct(db, h[r].productData.id, h[r].productObject)
        /\ h' = [h EXCEPT ![r].pc = "cleanup", ![r].saved = TRUE]
        /\ UNCHANGED blobs

\* saveDigitalProduct: the write throws, returns no record (an update whose
\* record is gone), or stores the record
Save(r) ==
  /\ h[r].pc = "save"
  /\ UNCHANGED <<blobs, nreq, shop>>
  /\ \/ /\ Respond(r, 500, "write failed")
        /\ UNCHANGED db
     \/ /\ h[r].productData.id # 0
        /\ FindById(db, h[r].productData.id)._id = 0
        /\ Respond(r, 500, "Failed to save digital product in mongo")
        /\ UNCHANGED db
     \/ /\ h[r].productData.id # 0 => FindById(db, h[r].productData.id)._id # 0
        /\ db' = SaveDigitalProduct(db, h[r].productData.id, h[r].productObject)
        /\ h' = [h EXCEPT ![r].pc = "cleanup", ![r].saved = TRUE]

\* the deletes of the old keys no longer referenced; each may fail silently
Cleanup(r) ==
  /\ h[r].pc = "cleanup"
  /\ UNCHANGED <<db, nreq, shop>>
  /\ LET toDelete == IF h[r].existingProduct._id # 0
                       THEN ToDelete(h[r].existingProduct, h[r].productObject)
                       ELSE {}
     IN /\ \E done \in SUBSET toDelete : blobs' = BlobsAfterDelete(blobs, done)
        /\ h' = [h EXCEPT ![r].pc = "session", ![r].deleteCalls = toDelete]

\* ShopifySession.findOne: the query fails, finds no session, or finds one
SessionLookup(r) ==
  /\ h[r].pc = "session"
  /\ UNCHANGED <<db, blobs, nreq, shop>>
  /\ \/ Respond(r, 500, "query failed")
     \/ Respond(r, 200, "")
     \/ h' = [h EXCEPT ![r].pc = "sync"]

\* the integration block: shipping flags of removed and submitted variants,
\* then the tags; no result of a call changes what follows
Sync(r) ==
  /\ h[r].pc = "sync"
  /\ UNCHANGED <<db, blobs, nreq>>
  /\ \E outcome \in TagOutcomes :
       LET newTags == {"Digital Product"}
           call == UpdateProductTagsInShopify(shop, newTags, outcome)
       IN /\ shop' = call.after
          /\ h' = [h EXCEPT ![r].pc = "done", ![r].status = 200,
                            ![r].shipCalls = ShippingCalls(h[r].existingProduct,
                                                           h[r].productData,
                                                           h[r].productObject),
                            ![r].tagCalls = 1,
                            ![r].tagLog = <<call>>]

\* the response is sent; the locals go away
Finish(r) ==
  /\ h[r].pc = "done"
  /\ UNCHANGED <<db, blobs, nreq, shop>>
  /\ h' = [h EXCEPT ![r] = IdleHandler]

Init ==
  /\ db = {}
  /\ blobs = [k \in AllKeys |-> 0]
  /\ nreq = 0
  /\ h = [r \in Slots |-> IdleHandler]
  /\ shop = {}

Next ==
  \E r \in Slots :
    \/ ParseFormData(r, Requests, MaxRequests)
    \/ DuplicateCheck(r)
    \/ Reconcile(r)
    \/ Save(r)
    \/ Cleanup(r)
    \/ SessionLookup(r)
    \/ Sync(r)
    \/ Finish(r)

Spec == Init /\ [][Next]_vars

NextIds ==
  \E r \in Slots :
    \/ ParseFormData(r, RequestsIds, MaxIdRequests)
    \/ DuplicateCheck(r)
    \/ Reconcile(r)
    \/ Save(r)
    \/ Cleanup(r)
    \/ SessionLookup(r)
    \/ Sync(r)
    \/ Finish(r)

SpecIds == Init /\ [][NextIds]_vars

NextDownloads ==
  \E r \in Slots :
    \/ ParseFormData(r, RequestsDownloads, MaxDownloadRequests)
    \/ DuplicateCheck(r)
    \/ Reconcile(r)
    \/ Save(r)
    \/ Cleanup(r)
    \/ SessionLookup(r)
    \/ Sync(r)
    \/ Finish(r)

SpecDownloads == Init /\ [][NextDownloads]_vars

NextFiles ==
  \E r \in Slots :
    \/ ParseFormData(r, RequestsFiles, MaxFileRequests)
    \/ DuplicateCheck(r)
    \/ Reconcile(r)
    \/ Save(r)
    \/ Cleanup(r)
    \/ SessionLookup(r)
    \/ Sync(r)
    \/ Finish(r)

SpecFiles == Init /\ [][NextFiles]_vars

\* two handler invocations at a time, their steps interleaved
InitRace ==
  /\ db = {}
  /\ blobs = [k \in AllKeys |-> 0]
  /\ nreq = 0
  /\ h = [r \in RaceSlots |-> IdleHandler]
  /\ shop = {}

NextRace ==
  \E r \in RaceSlots :
    \/ ParseFormData(r, RequestsRace, MaxRaceRequests)
    \/ DuplicateCheck(r)
    \/ Reconcile(r)
    \/ Save(r)
    \/ Cleanup(r)
    \/ SessionLookup(r)
    \/ Sync(r)
    \/ Finish(r)

SpecRace == InitRace /\ [][NextRace]_vars

\* a caller of updateProductTagsInShopify: one call with any tags to add
UpdateTagsCall(r) ==
  /\ h[r].pc = "idle"
  /\ Len(h[r].tagLog) < MaxTagCalls
  /\ UNCHANGED <<db, blobs, nreq>>
  /\ \E newTags \in SUBSET Tags : \E outcome \in TagOutcomes :
       LET call == UpdateProductTagsInShopify(shop, newTags, outcome)
       IN /\ shop' = call.after
          /\ h' = [h EXCEPT ![r].tagLog = Append(@, call)]

\* the product carries any tags before the first call
InitTags ==
  /\ db = {}
  /\ blobs = [k \in AllKeys |-> 0]
  /\ nreq = 0
  /\ h = [r \in Slots |-> IdleHandler]
  /\ shop \in SUBSET Tags

NextTags == \E r \in Slots : UpdateTagsCall(r)

SpecTags == InitTags /\ [][NextTags]_vars


-----------------------------------------------------------------------------
(* Properties *)

\* the handler of slot r has computed productObject
Reconciled(r) == h[r].productObject.productId # ""

\* the handler of slot r is past the orphan cleanup
CleanedUp(r) ==
  h[r].saved /\ h[r].pc \in {"session", "sync", "done"}

IsUpdate(r) == h[r].existingProduct._id # 0

KeysOf(variants) == {k \in AllKeys : \E i \in DOMAIN variants : variants[i].fileKey = k}

IdsOf(variants) == {variants[i].id : i \in DOMAIN variants}

SameFile(x, y) ==
  /\ x.fileKey = y.fileKey
  /\ x.fileUrl = y.fileUrl
  /\ x.fileName = y.fileName
  /\ x.fileSize = y.fileSize

\* C1: the keys an update asks the blob store to delete are, once the cleanup
\* has run, exactly the non-empty keys of the previous variants that no
\* finalized variant has; at no point has a request asked to delete a key of
\* a finalized variant or a key outside that difference, and a creation asks
\* for no delete.
C1_OrphanSet ==
  \A r \in Slots :
    LET old == KeysOf(h[r].existingProduct.variants)
        new == KeysOf(h[r].productObject.variants)
    IN /\ h[r].deleteCalls \cap new = {}
       /\ h[r].deleteCalls \subseteq old \ new
       /\ ~IsUpdate(r) => h[r].deleteCalls = {}
       /\ (IsUpdate(r) /\ CleanedUp(r)) => h[r].deleteCalls = old \ new

\* an update that keeps one old key and orphans another
C1_Witness ==
  \E r \in Slots :
    /\ IsUpdate(r) /\ CleanedUp(r)
    /\ h[r].deleteCalls # {}
    /\ KeysOf(h[r].existingProduct.variants) \cap KeysOf(h[r].productObject.variants) # {}

NoUpload(r) == h[r].files = <<>>

AllHaveKey(variants) == \A i \in DOMAIN variants : variants[i].fileKey # ""

SameIdsInOrder(xs, ys) ==
  /\ Len(xs) = Len(ys)
  /\ \A i \in DOMAIN xs : xs[i].id = ys[i].id

Migrates(r) ==
  /\ IsUpdate(r)
  /\ h[r].productData.fileType = "commonFile"
  /\ KeysOf(h[r].existingProduct.variants) # {}

FirstWithKey(variants) ==
  CHOOSE i \in DOMAIN variants :
    /\ variants[i].fileKey # ""
    /\ \A j \in 1..(i - 1) : variants[j].fileKey = ""

NoCommonUpload(r) == \A i \in DOMAIN h[r].files : h[r].files[i].field # "file"

\* C3: an update of a product stored in per-variant mode that declares common
\* mode and brings no common upload gives every finalized variant the key,
\* url, name and size of the first previous variant, in stored order, that
\* has a fileKey, whatever the variant submitted.
C3_PerVariantToCommon ==
  \A r \in Slots :
    (/\ Reconciled(r) /\ IsUpdate(r)
     /\ h[r].existingProduct.fileType = "variant"
     /\ h[r].productData.fileType = "commonFile"
     /\ NoCommonUpload(r)
     /\ KeysOf(h[r].existingProduct.variants) # {}) =>
      \A i \in DOMAIN h[r].productObject.variants :
        SameFile(h[r].productObject.variants[i],
                 h[r].existingProduct.variants[
                   FirstWithKey(h[r].existingProduct.variants)])

\* such a switch over two previous variants with different keys, where a
\* submitted variant names another key than the migrated one
C3_Witness ==
  \E r \in Slots :
    /\ Reconciled(r) /\ IsUpdate(r)
    /\ h[r].existingProduct.fileType = "variant"
    /\ h[r].productData.fileType = "commonFile"
    /\ NoCommonUpload(r)
    /\ Cardinality(KeysOf(h[r].existingProduct.variants)) = 2
    /\ Len(h[r].productObject.variants) = 2
    /\ \E i \in DOMAIN h[r].productData.variants :
         /\ h[r].productData.variants[i].fileKey # ""
         /\ h[r].productData.variants[i].fileKey
              # h[r].productObject.variants[i].fileKey


\* the previous product was stored in common mode with one shared fileKey
SavedCommon(p) ==
  /\ p.fileType = "common"
  /\ p.variants # <<>>
  /\ p.variants[1].fileKey # ""
  /\ \A i \in DOMAIN p.variants : p.variants[i].fileKey = p.variants[1].fileKey

NoVariantUpload(r) == \A i \in DOMAIN h[r].files : h[r].files[i].field = "file"

\* C4: an update of a product stored in common mode with one shared fileKey
\* that declares per-variant mode and brings no per-variant upload gives every
\* finalized variant that shared fileKey, new variants and variants submitting
\* another or no fileKey included, and asks for no delete.
C4_CommonToPerVariant ==
  \A r \in Slots :
    (/\ Reconciled(r) /\ IsUpdate(r)
     /\ SavedCommon(h[r].existingProduct)
     /\ h[r].productData.fileType # "commonFile"
     /\ NoVariantUpload(r)) =>
      /\ \A i \in DOMAIN h[r].productObject.variants :
           h[r].productObject.variants[i].fileKey
             = h[r].existingProduct.variants[1].fileKey
      /\ h[r].deleteCalls = {}

\* the ids of the shipping calls made with requiresShipping = flag
CallsFor(r, id, flag) ==
  {i \in DOMAIN h[r].shipCalls :
     h[r].shipCalls[i] = [variantId |-> id, requiresShipping |-> flag]}

\* the integration block of slot r has run
Synced(r) == h[r].pc = "done" /\ h[r].tagCalls = 1

C6_NewCommonFile ==
  \A r \in Slots :
    (/\ Reconciled(r)
     /\ h[r].productData.fileType = "commonFile"
     /\ ~NoCommonUpload(r)) =>
      /\ \E i \in DOMAIN h[r].files :
           /\ h[r].files[i].field = "file"
           /\ \A j \in 1..(i - 1) : h[r].files[j].field # "file"
           /\ \A k \in DOMAIN h[r].productObject.variants :
                /\ h[r].productObject.variants[k].fileKey = h[r].files[i].key
                /\ h[r].productObject.variants[k].fileUrl = h[r].files[i].url
                /\ h[r].productObject.variants[k].fileName = h[r].files[i].name
                /\ h[r].productObject.variants[k].fileSize = h[r].files[i].size
      /\ ~IsUpdate(r) => h[r].deleteCalls = {}

\* a common upload over an update whose variants submit and had other files
C6_Witness ==
  \E r \in Slots :
    /\ Reconciled(r) /\ IsUpdate(r) /\ CleanedUp(r)
    /\ h[r].productData.fileType = "commonFile"
    /\ ~NoCommonUpload(r)
    /\ Len(h[r].productObject.variants) = 2
    /\ \E i \in DOMAIN h[r].productData.variants :
         /\ h[r].productData.variants[i].fileKey # ""
         /\ h[r].productData.variants[i].fileKey
              # h[r].productObject.variants[i].fileKey
    /\ h[r].deleteCalls # {}

\* the scenario of the claim: a creation of one variant with a common upload
C6_CreationWitness ==
  \E r \in Slots :
    /\ ~IsUpdate(r) /\ CleanedUp(r)
    /\ h[r].productData.fileType = "commonFile"
    /\ ~NoCommonUpload(r)
    /\ Len(h[r].productObject.variants) = 1
    /\ h[r].productObject.variants[1].fileKey = h[r].files[1].key

\* C7: once the product is persisted the request ends in success (200, no
\* error), whatever fails in the storefront phase.
C7_SyncFailureNonFatal ==
  \A r \in Slots :
    (h[r].pc = "done" /\ h[r].saved) => (h[r].status = 200 /\ h[r].error = "")

\* the part of C7 the handler keeps: a request that ends in failure without
\* having persisted failed in decoding, duplicate check, reconciliation or
\* persistence, and a failing storefront call never fails the request
C7_FailuresBeforePersist ==
  \A r \in Slots :
    /\ (h[r].pc = "done" /\ ~h[r].saved) => h[r].status \in {400, 500}
    /\ Synced(r) => h[r].status = 200

NoProcessing(r) ==
  /\ h[r].files = <<>>
  /\ ~h[r].saved
  /\ h[r].productObject = NullProduct
  /\ h[r].deleteCalls = {}
  /\ h[r].shipCalls = <<>>
  /\ h[r].tagCalls = 0

BadDecode(r) == h[r].productData.decode \in {"malformed", "missing", "invalid"}

\* C8: a request whose body is malformed or whose productData is missing or
\* no JSON is answered with 400 and an error, and nothing of it is processed.
C8_DecodeError ==
  \A r \in Slots :
    (h[r].pc = "done" /\ BadDecode(r)) =>
      (h[r].status = 400 /\ h[r].error # "" /\ NoProcessing(r))

\* the part of C8 the handler keeps: such a request uploads, persists,
\* deletes and syncs nothing, and leaves the blob store as it was
C8_NoPartialProcessing ==
  [][\A r \in Slots :
       (h'[r].pc # "idle" /\ h'[r].productData.decode \in {"malformed", "missing", "invalid"}) =>
         (blobs' = blobs /\ db' = db /\ NoProcessing(r)')]_vars

\* C9: while a record with another _id holds the submitted productId, the
\* handler goes no further than the duplicate check: it answers 400 "Product
\* already exists" (500 only when the lookup itself failed), computes no
\* productObject, persists nothing, deletes nothing, calls no storefront; and
\* "Product already exists" is only ever answered when such a record exists,
\* so an update keeping its own productId is no duplicate.
C9_Duplicate ==
  \A r \in Slots :
    LET pd == h[r].productData
        others == {p \in db : p.productId = pd.productId /\ p._id # pd.id}
    IN /\ (pd.decode = "ok" /\ ~h[r].saved /\ others # {}
           /\ h[r].pc \notin {"idle", "dupcheck"}) =>
            /\ h[r].pc = "done"
            /\ \/ h[r].status = 400 /\ h[r].error = "Product already exists"
               \/ h[r].status = 500 /\ h[r].error = "query failed"
            /\ h[r].productObject = NullProduct
            /\ h[r].deleteCalls = {} /\ h[r].shipCalls = <<>> /\ h[r].tagCalls = 0
       /\ h[r].error = "Product already exists" =>
            (h[r].status = 400 /\ others # {} /\ ~h[r].saved)
       /\ h[r].saved =>
            \A p, q \in db : p.productId = q.productId => p._id = q._id

\* an update is refused because another record holds the submitted productId
C9_Witness ==
  \E r \in Slots :
    /\ h[r].pc = "done" /\ h[r].error = "Product already exists"
    /\ h[r].productData.id # 0
    /\ \E p \in db : p._id = h[r].productData.id

\* an update keeping its own productId goes through
C9_OwnIdWitness ==
  \E r \in Slots :
    /\ h[r].pc = "done" /\ h[r].status = 200 /\ IsUpdate(r)
    /\ h[r].existingProduct.productId = h[r].productData.productId
    /\ Cardinality(db) = 2

SaveFailed(r) ==
  h[r].error \in {"write failed", "Failed to save digital product in mongo"}

\* C10: a request whose store write fails ends with 500; every blob it
\* uploaded is still in the blob store, and it has asked for no delete and
\* made no storefront call.
C10_PersistenceError ==
  \A r \in Slots :
    (h[r].pc = "done" /\ SaveFailed(r)) =>
      /\ h[r].status = 500
      /\ ~h[r].saved
      /\ \A i \in DOMAIN h[r].files : blobs[h[r].files[i].key] = h[r].n
      /\ h[r].deleteCalls = {} /\ h[r].shipCalls = <<>> /\ h[r].tagCalls = 0

\* a failed write of an update that had uploaded a file and had orphans
C10_Witness ==
  \E r \in Slots :
    /\ h[r].pc = "done" /\ SaveFailed(r)
    /\ h[r].files # <<>>
    /\ IsUpdate(r)
    /\ ToDelete(h[r].existingProduct, h[r].productObject) # {}

\* the whole descriptors a finalized variant i of slot r can take its file from
SourcesOf(r, i) ==
  {UploadDesc(h[r].files[j]) : j \in DOMAIN h[r].files}
    \cup {FileDesc(h[r].existingProduct.variants[j]) :
            j \in DOMAIN h[r].existingProduct.variants}
    \cup {FileDesc(h[r].productData.variants[i])}

\* C11: in every finalized variant fileKey, fileUrl, fileName and fileSize
\* are those of one source: one upload of the request, one previous variant,
\* or the submitted variant.
C11_MetadataAtomic ==
  \A r \in Slots :
    Reconciled(r) =>
      \A i \in DOMAIN h[r].productObject.variants :
        FileDesc(h[r].productObject.variants[i]) \in SourcesOf(r, i)

\* C12: a save never lowers the stored download count of a variant that
\* stays in the product.
C12_DownloadMonotonic ==
  [][\A p \in db : \A q \in db' :
       p._id = q._id =>
         \A i \in DOMAIN p.variants : \A j \in DOMAIN q.variants :
           p.variants[i].id = q.variants[j].id =>
             q.variants[j].download >= p.variants[i].download]_vars

\* the record the request of slot r has persisted
Persisted(r) ==
  {p \in db : p._id # 0 /\ p.productId = h[r].productObject.productId
                 /\ p.variants = h[r].productObject.variants}

\* C13: once a request declaring common mode has been saved, all variants of
\* the finalized and persisted product have the same fileKey.
C13_CommonSameKey ==
  \A r \in Slots :
    (h[r].saved /\ h[r].productData.fileType = "commonFile") =>
      /\ Persisted(r) # {}
      /\ \A i, j \in DOMAIN h[r].productObject.variants :
           h[r].productObject.variants[i].fileKey
             = h[r].productObject.variants[j].fileKey

\* C14: on an update of a product with variants the handler's previous mode
\* is the one inferred from the stored keys (common exactly when all previous
\* variants share one non-empty fileKey), and a product stored by a request
\* declaring common mode with one shared key is seen as common.
C14_PreviousMode ==
  \A r \in Slots :
    (IsUpdate(r) /\ Reconciled(r) /\ h[r].existingProduct.variants # <<>>) =>
      /\ OldMode(h[r].existingProduct) = OldModeByKeys(h[r].existingProduct)
      /\ SavedCommon(h[r].existingProduct) =>
           OldMode(h[r].existingProduct) = "common"

\* the upload of the request filed under field that was submitted first
FirstSubmitted(files, field) ==
  CHOOSE u \in {files[i] : i \in DOMAIN files} :
    /\ u.field = field
    /\ \A i \in DOMAIN files :
         files[i].field = field => NameRank(u.name) <= NameRank(files[i].name)

\* C15: with several successful uploads for one target, the finalized
\* variants of that target get the upload submitted first: the common one in
\* common mode, the one of the variant id in per-variant mode.
C15_FirstSubmittedUpload ==
  \A r \in Slots :
    Reconciled(r) =>
      \A i \in DOMAIN h[r].productObject.variants :
        LET v == h[r].productObject.variants[i]
            field == IF h[r].productData.fileType = "commonFile" THEN "file"
                     ELSE FieldOfVariant(v.id)
        IN FilesOf(h[r].files, field) # <<>> =>
             v.fileKey = FirstSubmitted(h[r].files, field).key

\* the call got the current tags of the product
ReadOk(call) == call.result.error \notin {"read failed", "Product not found"}

\* C16: a call of updateProductTagsInShopify that follows a successful call
\* with the same tags to add sends no mutation and leaves the tags of the
\* product as they are, and, when its read of the product succeeds, returns
\* success with that same tag set; any call sends the mutation only when the
\* union differs from the current tags.
C16_MergeTagsIdempotent ==
  \A r \in Slots :
    /\ \A i \in DOMAIN h[r].tagLog :
         h[r].tagLog[i].result.mutated =>
           h[r].tagLog[i].before \cup h[r].tagLog[i].args # h[r].tagLog[i].before
    /\ \A i \in 1..(Len(h[r].tagLog) - 1) :
         LET first == h[r].tagLog[i]
             second == h[r].tagLog[i + 1]
         IN (first.result.status /\ second.args = first.args) =>
              /\ ~second.result.mutated
              /\ second.after = second.before
              /\ second.before = first.after
              /\ ReadOk(second) =>
                   /\ second.result.status
                   /\ second.result.tags = first.result.tags
                   /\ second.result.tags = second.after

\* a successful call that changed the tags, followed by a successful call
\* with the same tags to add
C16_Witness ==
  \E r \in Slots : \E i \in 1..(Len(h[r].tagLog) - 1) :
    /\ h[r].tagLog[i].result.status
    /\ h[r].tagLog[i].result.mutated
    /\ h[r].tagLog[i + 1].args = h[r].tagLog[i].args
    /\ h[r].tagLog[i + 1].result.status

\* C17: no step changes the productId of a stored record.
C17_ProductIdImmutable ==
  [][\A p \in db : \A q \in db' : p._id = q._id => q.productId = p.productId]_vars

\* two updates of the same product have both finished with success
BothUpdated ==
  /\ DOMAIN h = RaceSlots
  /\ \A r \in RaceSlots :
       /\ h[r].pc = "done" /\ h[r].status = 200
       /\ h[r].existingProduct._id # 0
  /\ \A r, q \in RaceSlots : h[r].productData.id = h[q].productData.id

\* C18: once two concurrent updates of the same product have both finished,
\* no fileKey of the stored product is a key that one of them asked the blob
\* store to delete and that is gone from it.
C18_ConcurrentUpdates ==
  BothUpdated =>
    \A p \in db : \A k \in KeysOf(p.variants) :
      ~(blobs[k] = 0 /\ \E r \in RaceSlots : k \in h[r].deleteCalls)

\* the request of slot r has ended in failure
Failed(r) == h[r].pc = "done" /\ h[r].status \in {400, 500}

\* C19: when a request has ended in failure without having persisted anything,
\* no blob under a fileKey of a stored product has the content this request
\* uploaded.
C19_FailedLeavesBlobs ==
  \A r \in Slots :
    (Failed(r) /\ ~h[r].saved) =>
      \A p \in db : \A k \in KeysOf(p.variants) : blobs[k] # h[r].n


====
